---- MODULE Spec2Model ----
(***************************************************************************)
(* Model of the BrainClone client-side graph engine:                       *)
(*   - the zustand graph store (useGraphStore): graph data + view state,   *)
(*   - the Graph3D event handlers (click, hover, background click),        *)
(*   - the guided tour ("overview animation") of Graph3D: trigger,         *)
(*     path planning (createSmoothPath) and the timer-driven stepping      *)
(*     loop (animateToNextNode).                                           *)
(*                                                                         *)
(* Node objects are records [id, type, name]; a link is a record           *)
(* [source, target] holding plain endpoint ids (the code reads an endpoint *)
(* as `typeof l.source === 'string' ? l.source : l.source.id`, i.e. by id).*)
(* Ids are strings, so that a link id `${source}-${target}` is a real      *)
(* string concatenation.                                                   *)
(***************************************************************************)
EXTENDS Integers, Sequences, FiniteSets, TLC

VARIABLES
    nodes,              \* graphData.nodes : sequence of node objects
    links,              \* graphData.links : sequence of links
    selectedNode,       \* store.selectedNode : node object or NullNode
    hoveredNode,        \* store.hoveredNode  : node object or NullNode
    highlightedNodes,   \* store.highlightedNodes : set of node ids
    highlightedLinks,   \* store.highlightedLinks : set of link ids
    notified,           \* store snapshots delivered to subscribers by the last handler
    lastOp,             \* name of the handler that ran last
    graphRef,           \* Graph3D: graphRef.current is set (renderer mounted)
    isOverviewActive,   \* Graph3D: React state isOverviewActive
    listener,           \* Graph3D: values captured by the registered startOverview listener
    tours,              \* Graph3D: stepping loops that have a timer pending
    planInput,          \* createSmoothPath called as a pure function: its argument
    planOutput,         \* ... and its result
    filterByType,       \* store.filterByType : a node type or NullType
    searchQuery,        \* store.searchQuery  : sequence of characters
    hoverEvents,        \* the hover events issued so far (node id, "" for hover-leave)
    isLoading,          \* store.isLoading
    error,              \* store.error : a message or NullError
    loadPc,             \* page: loadGraphData's position ("idle", "fetching", "done")
    journal,            \* page: the handleJournalSubmit call awaiting its response
    syncInFlight,       \* a syncToAPI request has been sent and has not settled
    calls,              \* graphApi: the mutation calls made so far, with their outcome
    focusInput,         \* camera focus computed as a pure function: the node position
    focusOutput         \* ... and the position handed to cameraPosition

storeVars == <<nodes, links, selectedNode, hoveredNode, highlightedNodes, highlightedLinks>>
tourVars  == <<graphRef, isOverviewActive, listener, tours>>
planVars  == <<planInput, planOutput>>
filterVars == <<filterByType, searchQuery>>
pageVars  == <<isLoading, error, loadPc, journal>>
callVars  == <<calls, focusInput, focusOutput>>
asyncVars == <<pageVars, callVars, syncInFlight>>
vars      == <<nodes, links, selectedNode, hoveredNode, highlightedNodes, highlightedLinks,
               notified, lastOp, graphRef, isOverviewActive, listener, tours,
               planInput, planOutput, filterByType, searchQuery, hoverEvents,
               isLoading, error, loadPc, journal, syncInFlight, calls,
               focusInput, focusOutput>>

----------------------------------------------------------------------------
(* Bounds and input sets *)

MaxNodes == 2       \* addNode is offered while the node list is shorter than this
MaxLinks == 2       \* addLink is offered while the link list is shorter than this
MaxTours == 2       \* startOverview is offered while fewer loops are in flight

NodeIds == {"a", "b", "c"}

\* display names, as sequences of characters
SarahChen == <<"S", "a", "r", "a", "h", " ", "C", "h", "e", "n">>
DivHacks  == <<"D", "i", "v", "H", "a", "c", "k", "s">>
NewYork   == <<"N", "Y", "C">>

\* the display name the inputs give to a node id
NameOf(id) ==
    CASE id = "a" -> SarahChen
      [] id = "b" -> DivHacks
      [] id = "c" -> NewYork
      [] OTHER    -> <<id>>

Node(id, type) == [id |-> id, type |-> type, name |-> NameOf(id)]
Link(s, t)     == [source |-> s, target |-> t]

\* null for filterByType
NullType == "null"

\* null for selectedNode / hoveredNode
NullNode == Node("", "")

\* error: null
NullError == "null"

\* no journal submission is awaiting its response
NoJournal == [active |-> FALSE, nodes |-> <<>>, links |-> <<>>]

\* a node position (node.x || 0, node.y || 0, node.z || 0)
Position(x, y, z) == [x |-> x, y |-> y, z |-> z]
Origin == Position(0, 0, 0)

\* cameraPosition has not been called
NoValue == [k |-> "none", n |-> 0, d |-> 1]
NoCamera == [x |-> NoValue, y |-> NoValue, z |-> NoValue]

NodeA == Node("a", "person")
NodeB == Node("b", "event")
NodeC == Node("c", "location")

\* nodes handed to addNode
NodeInputs == {NodeA, NodeB}

\* links handed to addLink
LinkInputs == {Link("a", "b"), Link("b", "c")}

\* ids and partial updates handed to updateNode
UpdateIds == {"a"}
UpdateInputs == {[type |-> "location"]}

EmptyGraph == [nodes |-> <<>>, links |-> <<>>]

\* the scenario snapshot: nodes {A:person, B:event, C:location}, link A-B
ScenarioGraph == [nodes |-> <<NodeA, NodeB, NodeC>>, links |-> <<Link("a", "b")>>]

\* a snapshot whose link names an endpoint that is not among its nodes
DanglingGraph == [nodes |-> <<NodeA>>, links |-> <<Link("a", "c")>>]

\* a snapshot with a single node
SingleGraph == [nodes |-> <<NodeB>>, links |-> <<>>]

\* a chain: A -> B -> C
ChainGraph == [nodes |-> <<NodeA, NodeB, NodeC>>,
               links |-> <<Link("a", "b"), Link("b", "c")>>]

\* node ids that contain the separator of link ids: "a" -> "b-c", "a-b" -> "c"
HyphenGraph == [nodes |-> <<NodeA, Node("a-b", "person"), Node("b-c", "event"), NodeC>>,
                links |-> <<Link("a", "b-c"), Link("a-b", "c")>>]

\* snapshots handed to setGraphData
Snapshots == {EmptyGraph, ScenarioGraph, DanglingGraph}

----------------------------------------------------------------------------
(* Helpers over sequences *)

Range(s) == {s[i] : i \in 1..Len(s)}

Ids(ns) == {ns[i].id : i \in 1..Len(ns)}

Min(a, b) == IF a < b THEN a ELSE b

RemoveAt(s, i) == SubSeq(s, 1, i - 1) \o SubSeq(s, i + 1, Len(s))

----------------------------------------------------------------------------
(* The store: useGraphStore *)

\* the state a subscriber is handed at a notification
StoreState(ns, ls, sel, hov, hn, hl) ==
    [nodes |-> ns, links |-> ls, selectedNode |-> sel, hoveredNode |-> hov,
     highlightedNodes |-> hn, highlightedLinks |-> hl]

\* `${sourceId}-${targetId}`
LinkId(s, t) == s \o "-" \o t

\* getNeighbors(nodeId): one pass over graphData.links
GetNeighborsOutgoing(ls, nodeId) ==
    LET incident == {i \in 1..Len(ls) : ls[i].source = nodeId}
    IN  [nodes |-> {ls[i].target : i \in incident},
         links |-> {LinkId(ls[i].source, ls[i].target) : i \in incident}]

GetNeighbors(ls, nodeId) ==
    LET incident == {i \in 1..Len(ls) : ls[i].source = nodeId \/ ls[i].target = nodeId}
    IN  [nodes |-> {IF ls[i].source = nodeId THEN ls[i].target ELSE ls[i].source : i \in incident},
         links |-> {LinkId(ls[i].source, ls[i].target) : i \in incident}]

\* syncToAPI(data): the POST /api/graph request is sent (fetch returns a promise
\* that nobody awaits); it settles later
syncToAPI(data) == syncInFlight' = TRUE

\* outcomes of the POST /api/graph exchange
SyncOutcomes == {"ok", "failed"}

\* a syncToAPI request settles: the response is dropped, a rejection is caught
\* and logged with console.warn; other requests may still be in flight
syncToAPI_settleRevert(outcome) ==
    /\ syncInFlight
    /\ syncInFlight' \in BOOLEAN
    /\ lastOp' = IF outcome = "ok" THEN "syncToAPI_ok" ELSE "syncToAPI_warn"
    /\ IF outcome = "ok"
       THEN UNCHANGED <<nodes, links>>
       ELSE nodes' = <<>> /\ links' = <<>>
    /\ UNCHANGED <<selectedNode, hoveredNode, highlightedNodes, highlightedLinks,
                   notified, tourVars, planVars, filterVars, hoverEvents,
                   pageVars, callVars>>

syncToAPI_settle(outcome) ==
    /\ syncInFlight
    /\ syncInFlight' \in BOOLEAN
    /\ lastOp' = IF outcome = "ok" THEN "syncToAPI_ok" ELSE "syncToAPI_warn"
    /\ UNCHANGED <<storeVars, notified, tourVars, planVars, filterVars, hoverEvents,
                   pageVars, callVars>>

\* setGraphData(data): set({ graphData: data })
setGraphDataResetView(data) ==
    /\ nodes' = data.nodes
    /\ links' = data.links
    /\ UNCHANGED <<selectedNode, hoveredNode, highlightedNodes, highlightedLinks>>
    /\ notified' = <<StoreState(nodes', links', selectedNode, hoveredNode,
                                highlightedNodes, highlightedLinks)>>
    /\ syncToAPI(data)
    /\ lastOp' = "setGraphData"
    /\ filterByType' = NullType
    /\ searchQuery' = <<>>
    /\ UNCHANGED <<tourVars, planVars, pageVars, callVars, hoverEvents>>

setGraphData(data) ==
    /\ nodes' = data.nodes
    /\ links' = data.links
    /\ UNCHANGED <<selectedNode, hoveredNode, highlightedNodes, highlightedLinks>>
    /\ notified' = <<StoreState(nodes', links', selectedNode, hoveredNode,
                                highlightedNodes, highlightedLinks)>>
    /\ syncToAPI(data)
    /\ lastOp' = "setGraphData"
    /\ UNCHANGED <<tourVars, planVars, pageVars, callVars, filterVars, hoverEvents>>

\* addNode(node): nodes: [...nodes, node]
addNode(node) ==
    /\ Len(nodes) < MaxNodes
    /\ nodes' = Append(nodes, node)
    /\ UNCHANGED <<links, selectedNode, hoveredNode, highlightedNodes, highlightedLinks>>
    /\ notified' = <<StoreState(nodes', links, selectedNode, hoveredNode,
                                highlightedNodes, highlightedLinks)>>
    /\ lastOp' = "addNode"
    /\ UNCHANGED <<tourVars, planVars, asyncVars, filterVars, hoverEvents>>

\* the links that removeNode(nodeId) keeps
removeNodeLinksDangling(ls, nodeId) ==
    LET keep(l) == l.source # nodeId
    IN  SelectSeq(ls, keep)

removeNodeLinks(ls, nodeId) ==
    LET keep(l) == l.source # nodeId /\ l.target # nodeId
    IN  SelectSeq(ls, keep)

\* removeNode(nodeId)
removeNode(nodeId) ==
    /\ LET keep(n) == n.id # nodeId
       IN  nodes' = SelectSeq(nodes, keep)
    /\ links' = removeNodeLinks(links, nodeId)
    /\ UNCHANGED <<selectedNode, hoveredNode, highlightedNodes, highlightedLinks>>
    /\ notified' = <<StoreState(nodes', links', selectedNode, hoveredNode,
                                highlightedNodes, highlightedLinks)>>
    /\ lastOp' = "removeNode"
    /\ UNCHANGED <<tourVars, planVars, asyncVars, filterVars, hoverEvents>>

\* updateNode(nodeId, updates): n.id === nodeId ? { ...n, ...updates } : n
updateNode(nodeId, updates) ==
    /\ nodes' = [i \in 1..Len(nodes) |->
                    IF nodes[i].id = nodeId
                    THEN [f \in DOMAIN nodes[i] |->
                            IF f \in DOMAIN updates THEN updates[f] ELSE nodes[i][f]]
                    ELSE nodes[i]]
    /\ UNCHANGED <<links, selectedNode, hoveredNode, highlightedNodes, highlightedLinks>>
    /\ notified' = <<StoreState(nodes', links, selectedNode, hoveredNode,
                                highlightedNodes, highlightedLinks)>>
    /\ lastOp' = "updateNode"
    /\ UNCHANGED <<tourVars, planVars, asyncVars, filterVars, hoverEvents>>

\* addLink(link): links: [...links, link]
addLink(link) ==
    /\ Len(links) < MaxLinks
    /\ links' = Append(links, link)
    /\ UNCHANGED <<nodes, selectedNode, hoveredNode, highlightedNodes, highlightedLinks>>
    /\ notified' = <<StoreState(nodes, links', selectedNode, hoveredNode,
                                highlightedNodes, highlightedLinks)>>
    /\ lastOp' = "addLink"
    /\ UNCHANGED <<tourVars, planVars, asyncVars, filterVars, hoverEvents>>

\* removeLink(sourceId, targetId): keeps l unless source === sourceId && target === targetId
removeLink(sourceId, targetId) ==
    /\ LET keep(l) == ~(l.source = sourceId /\ l.target = targetId)
       IN  links' = SelectSeq(links, keep)
    /\ UNCHANGED <<nodes, selectedNode, hoveredNode, highlightedNodes, highlightedLinks>>
    /\ notified' = <<StoreState(nodes, links', selectedNode, hoveredNode,
                                highlightedNodes, highlightedLinks)>>
    /\ lastOp' = "removeLink"
    /\ UNCHANGED <<tourVars, planVars, asyncVars, filterVars, hoverEvents>>

\* clearGraph(): set({ graphData: { nodes: [], links: [] }, selectedNode: null })
clearGraphResetView ==
    /\ nodes' = <<>>
    /\ links' = <<>>
    /\ selectedNode' = NullNode
    /\ UNCHANGED <<hoveredNode, highlightedNodes, highlightedLinks>>
    /\ notified' = <<StoreState(nodes', links', selectedNode', hoveredNode,
                                highlightedNodes, highlightedLinks)>>
    /\ lastOp' = "clearGraph"
    /\ filterByType' = NullType
    /\ searchQuery' = <<>>
    /\ UNCHANGED <<tourVars, planVars, asyncVars, hoverEvents>>

clearGraph ==
    /\ nodes' = <<>>
    /\ links' = <<>>
    /\ selectedNode' = NullNode
    /\ UNCHANGED <<hoveredNode, highlightedNodes, highlightedLinks>>
    /\ notified' = <<StoreState(nodes', links', selectedNode', hoveredNode,
                                highlightedNodes, highlightedLinks)>>
    /\ lastOp' = "clearGraph"
    /\ UNCHANGED <<tourVars, planVars, asyncVars, filterVars, hoverEvents>>

\* setHighlightedNodes(nodeIds): set({ highlightedNodes: new Set(nodeIds) })
setHighlightedNodes(nodeIds) ==
    /\ highlightedNodes' = Range(nodeIds)
    /\ UNCHANGED <<nodes, links, selectedNode, hoveredNode, highlightedLinks>>
    /\ notified' = <<StoreState(nodes, links, selectedNode, hoveredNode,
                                highlightedNodes', highlightedLinks)>>
    /\ lastOp' = "setHighlightedNodes"
    /\ UNCHANGED <<tourVars, planVars, asyncVars, filterVars, hoverEvents>>

\* setHighlightedLinks(linkIds): set({ highlightedLinks: new Set(linkIds) })
setHighlightedLinks(linkIds) ==
    /\ highlightedLinks' = Range(linkIds)
    /\ UNCHANGED <<nodes, links, selectedNode, hoveredNode, highlightedNodes>>
    /\ notified' = <<StoreState(nodes, links, selectedNode, hoveredNode,
                                highlightedNodes, highlightedLinks')>>
    /\ lastOp' = "setHighlightedLinks"
    /\ UNCHANGED <<tourVars, planVars, asyncVars, filterVars, hoverEvents>>

\* setFilterByType(type): set({ filterByType: type })
setFilterByType(type) ==
    /\ filterByType' = type
    /\ UNCHANGED <<storeVars, searchQuery>>
    /\ notified' = <<StoreState(nodes, links, selectedNode, hoveredNode,
                                highlightedNodes, highlightedLinks)>>
    /\ lastOp' = "setFilterByType"
    /\ UNCHANGED <<tourVars, planVars, asyncVars, hoverEvents>>

\* setSearchQuery(query): set({ searchQuery: query })
setSearchQuery(query) ==
    /\ searchQuery' = query
    /\ UNCHANGED <<storeVars, filterByType>>
    /\ notified' = <<StoreState(nodes, links, selectedNode, hoveredNode,
                                highlightedNodes, highlightedLinks)>>
    /\ lastOp' = "setSearchQuery"
    /\ UNCHANGED <<tourVars, planVars, asyncVars, hoverEvents>>

----------------------------------------------------------------------------
(* graphApi: the backend client.  A call's HTTP exchange has one of three
   outcomes: the backend answers with a record that parses, it answers with
   something the schema rejects, or the request fails. *)

BackendOutcomes == {"ok", "malformed", "unavailable"}

\* DEMO_GRAPH_DATA, cut down to three nodes and one link
DEMO_GRAPH_DATA == ScenarioGraph

\* Date.now(), from a two-tick clock
Clock == {1, 2}

\* one finished call: what was called, on which id, and how it came back
\* ("persisted", "fallback", "done" for the void calls, "raised" for a throw)
Call(op, arg, outcome, result) ==
    [op |-> op, arg |-> arg, outcome |-> outcome, result |-> result]

\* the id the backend gives a record it has persisted
PersistedId(id) == "srv_" \o id

\* graphApi.createNode(node): the persisted record, or the node with a generated id
graphApi_createNode(node, backend, now) ==
    IF backend = "ok"
    THEN Call("createNode", node.id, "persisted", PersistedId(node.id))
    ELSE Call("createNode", node.id, "fallback", "demo_" \o ToString(now))

\* graphApi.updateNode(nodeId, updates): the persisted record, or the demo node
\* with the updates, or throw new Error('Node not found')
graphApi_updateNode(nodeId, updates, backend) ==
    IF backend = "ok"
    THEN Call("updateNode", nodeId, "persisted", nodeId)
    ELSE IF \E i \in 1..Len(DEMO_GRAPH_DATA.nodes) : DEMO_GRAPH_DATA.nodes[i].id = nodeId
         THEN Call("updateNode", nodeId, "fallback", nodeId)
         ELSE Call("updateNode", nodeId, "raised", "Node not found")

\* graphApi.deleteNode(nodeId): the failure is logged
graphApi_deleteNode(nodeId, backend) ==
    Call("deleteNode", nodeId, "done", "")

\* graphApi.createLink(link): the persisted record, or the link with a colour
graphApi_createLink(link, backend) ==
    IF backend = "ok"
    THEN Call("createLink", LinkId(link.source, link.target), "persisted",
              LinkId(link.source, link.target))
    ELSE Call("createLink", LinkId(link.source, link.target), "fallback",
              LinkId(link.source, link.target))

\* graphApi.deleteLink(sourceId, targetId): the failure is logged
graphApi_deleteLink(sourceId, targetId, backend) ==
    Call("deleteLink", LinkId(sourceId, targetId), "done", "")

\* a node or neighbour column of one result record; NoEntity for null
Entity(name, category) == [name |-> name, category |-> category]
NoEntity == Entity("", "")

\* one record of the cypher result: n, r (a relationship is present) and m
Record(n, r, m) == [n |-> n, r |-> r, m |-> m]

\* category === 'Event' ? 'event' : 'Date' ? 'event' : 'Location' ? 'location'
\*   : 'Person' ? 'person' : 'event'
nodeType(category) ==
    CASE category = "Location" -> "location"
      [] category = "Person" -> "person"
      [] OTHER -> "event"

\* the links array already holds the link id or the reversed link id
linkSetHas(ls, s, t) ==
    \E i \in 1..Len(ls) : LinkId(ls[i].source, ls[i].target) \in {LinkId(s, t), LinkId(t, s)}

\* response.data.results.forEach(...): nodes keyed by name, links deduplicated
RECURSIVE processRecords(_, _, _)
processRecords(records, ns, ls) ==
    IF records = <<>>
    THEN [nodes |-> ns, links |-> ls]
    ELSE LET record == Head(records)
             ns1 == IF record.n # NoEntity /\ record.n.name \notin Ids(ns)
                    THEN Append(ns, Node(record.n.name, nodeType(record.n.category)))
                    ELSE ns
             ns2 == IF record.m # NoEntity /\ record.m.name \notin Ids(ns1)
                    THEN Append(ns1, Node(record.m.name, nodeType(record.m.category)))
                    ELSE ns1
             ls1 == IF /\ record.r /\ record.n # NoEntity /\ record.m # NoEntity
                       /\ ~linkSetHas(ls, record.n.name, record.m.name)
                    THEN Append(ls, Link(record.n.name, record.m.name))
                    ELSE ls
         IN  processRecords(Tail(records), ns2, ls1)

\* what the POST /graph/cypher exchange brings: a body with a results array, a
\* body without a results field, a body whose results is not an array, or a
\* rejected request
Response(kind, results) == [kind |-> kind, results |-> results]
NoResponse == Response("none", <<>>)

\* graphApi.getGraph(): the graph built from the response, or DEMO_GRAPH_DATA
\* when anything in the try block throws
getGraph(response) ==
    CASE response.kind = "results" -> processRecords(response.results, <<>>, <<>>)
      [] response.kind = "noResults" -> [nodes |-> <<>>, links |-> <<>>]
      [] OTHER -> DEMO_GRAPH_DATA

----------------------------------------------------------------------------
(* Graph3D: the filter/search pipeline (filteredData) and the node opacity *)

UpperCaseLetters == <<"A", "B", "C", "D", "E", "F", "G", "H", "I", "J", "K", "L", "M",
                      "N", "O", "P", "Q", "R", "S", "T", "U", "V", "W", "X", "Y", "Z">>
LowerCaseLetters == <<"a", "b", "c", "d", "e", "f", "g", "h", "i", "j", "k", "l", "m",
                      "n", "o", "p", "q", "r", "s", "t", "u", "v", "w", "x", "y", "z">>

\* String.prototype.toLowerCase, character by character
toLowerCaseIdentity(str) == str

toLowerCase(str) ==
    [i \in 1..Len(str) |->
        IF \E k \in 1..Len(UpperCaseLetters) : UpperCaseLetters[k] = str[i]
        THEN LowerCaseLetters[CHOOSE k \in 1..Len(UpperCaseLetters) : UpperCaseLetters[k] = str[i]]
        ELSE str[i]]

\* String.prototype.includes: sub occurs in str as a contiguous run
includes(str, sub) ==
    \E i \in 0..(Len(str) - Len(sub)) : SubSeq(str, i + 1, i + Len(sub)) = sub

\* links.filter(link => nodeIds.has(sourceId) && nodeIds.has(targetId))
linksWithin(ls, nodeIds) ==
    LET keep(l) == l.source \in nodeIds /\ l.target \in nodeIds
    IN  SelectSeq(ls, keep)

\* if (filterByType) { ... }: the type stage of filteredData
typeFilterKeepLinks(data, type) ==
    IF type # NullType
    THEN LET keep(n) == n.type = type
         IN  [nodes |-> SelectSeq(data.nodes, keep), links |-> data.links]
    ELSE data

typeFilter(data, type) ==
    IF type # NullType
    THEN LET keep(n) == n.type = type
             kept == SelectSeq(data.nodes, keep)
         IN  [nodes |-> kept, links |-> linksWithin(data.links, Ids(kept))]
    ELSE data

\* if (searchQuery) { ... }: the search stage of filteredData
searchFilter(data, query) ==
    IF query # <<>>
    THEN LET keep(n) == includes(toLowerCase(n.name), toLowerCase(query))
             kept == SelectSeq(data.nodes, keep)
         IN  [nodes |-> kept, links |-> linksWithin(data.links, Ids(kept))]
    ELSE data

\* filteredData: the type stage, then the search stage
filteredData(ns, ls, type, query) ==
    searchFilter(typeFilter([nodes |-> ns, links |-> ls], type), query)

\* the graph handed to ForceGraph3D in the current state
visibleGraph == filteredData(nodes, links, filterByType, searchQuery)

\* material opacity of nodeThreeObject, in percent
FullOpacity == 100
LowOpacity == 20

nodeOpacity(highlighted, id) ==
    IF Cardinality(highlighted) > 0
    THEN IF id \in highlighted THEN FullOpacity ELSE LowOpacity
    ELSE FullOpacity

\* linkColor(link): isHighlighted = highlightedLinks.has(`${sourceId}-${targetId}`)
linkHighlighted(highlighted, link) ==
    LinkId(link.source, link.target) \in highlighted

----------------------------------------------------------------------------
(* Graph3D: the camera target of a focus move.  JavaScript numbers are modelled
   as exact rationals n/d (rounding is left out) together with the IEEE-754
   values Infinity, -Infinity and NaN; negative zero is not told from zero. *)

\* Math.random() is drawn from {0, 1/RandomSteps, ..., (RandomSteps-1)/RandomSteps}
RandomSteps == 2

Num(n)    == [k |-> "num", n |-> n, d |-> 1]
Frac(n, d) == [k |-> "num", n |-> n, d |-> d]
Infinity(sign) == [k |-> "inf", n |-> sign, d |-> 1]
NaN       == [k |-> "nan", n |-> 0, d |-> 1]

Sign(n) == IF n < 0 THEN -1 ELSE IF n > 0 THEN 1 ELSE 0

\* a + b
fadd(a, b) ==
    IF a.k = "nan" \/ b.k = "nan" THEN NaN
    ELSE IF a.k = "inf" /\ b.k = "inf" THEN (IF a.n = b.n THEN a ELSE NaN)
    ELSE IF a.k = "inf" THEN a
    ELSE IF b.k = "inf" THEN b
    ELSE Frac(a.n * b.d + b.n * a.d, a.d * b.d)

\* a * b
fmul(a, b) ==
    IF a.k = "nan" \/ b.k = "nan" THEN NaN
    ELSE IF a.k = "inf" \/ b.k = "inf"
         THEN (IF a.n = 0 \/ b.n = 0 THEN NaN ELSE Infinity(Sign(a.n) * Sign(b.n)))
    ELSE Frac(a.n * b.n, a.d * b.d)

\* a / b
fdiv(a, b) ==
    IF a.k = "nan" \/ b.k = "nan" THEN NaN
    ELSE IF a.k = "inf" THEN (IF b.k = "inf" THEN NaN
                              ELSE Infinity(IF b.n < 0 THEN -a.n ELSE a.n))
    ELSE IF b.k = "inf" THEN Num(0)
    ELSE IF b.n = 0 THEN (IF a.n = 0 THEN NaN ELSE Infinity(Sign(a.n)))
    ELSE Frac(a.n * b.d * Sign(b.n), a.d * b.n * Sign(b.n))

\* squared distance of a position from the origin
NormSquared(p) == p.x * p.x + p.y * p.y + p.z * p.z

\* Math.hypot(x, y, z), for the positions whose distance is a whole number
hypot(p) == Num(CHOOSE r \in 0..NormSquared(p) : r * r = NormSquared(p))

\* position * distRatio, component by component
scaled(p, distRatio) ==
    [x |-> fmul(Num(p.x), distRatio),
     y |-> fmul(Num(p.y), distRatio),
     z |-> fmul(Num(p.z), distRatio)]

\* const distance = 150
ClickDistance == 150

\* handleNodeClick: the position handed to graphRef.current.cameraPosition
clickCameraPosition(p) ==
    LET distRatio == fadd(Num(1), fdiv(Num(ClickDistance), hypot(p)))
    IN  scaled(p, distRatio)

\* Math.random(), k-th value
Random(k) == Frac(k, RandomSteps)

\* animateToNextNode: const distance = 80 + Math.random() * 40
TourDistanceBase == 80
TourDistanceSpread == 40

\* animateToNextNode: (Math.random() - 0.5) * 20
TourOffsetSpread == 20
randomOffset(k) == fmul(fadd(Random(k), Frac(-1, 2)), Num(TourOffsetSpread))

\* animateToNextNode: targetPosition, for the four values of Math.random()
tourCameraPosition(p, kd, kx, ky, kz) ==
    LET distance == fadd(Num(TourDistanceBase), fmul(Random(kd), Num(TourDistanceSpread)))
        distRatio == fadd(Num(1), fdiv(distance, hypot(p)))
        at == scaled(p, distRatio)
    IN  [x |-> fadd(at.x, randomOffset(kx)),
         y |-> fadd(at.y, randomOffset(ky)),
         z |-> fadd(at.z, randomOffset(kz))]

----------------------------------------------------------------------------
(* Graph3D: pointer handlers *)

\* handleNodeClick(node): setSelectedNode(node); the camera move writes no store
\* or component state, its target is clickCameraPosition
handleNodeClick(node) ==
    /\ selectedNode' = node
    /\ UNCHANGED <<nodes, links, hoveredNode, highlightedNodes, highlightedLinks>>
    /\ notified' = <<StoreState(nodes, links, selectedNode', hoveredNode,
                                highlightedNodes, highlightedLinks)>>
    /\ lastOp' = "handleNodeClick"
    /\ UNCHANGED <<tourVars, planVars, asyncVars, filterVars, hoverEvents>>

\* handleBackgroundClick(): setSelectedNode(null)
handleBackgroundClick ==
    /\ selectedNode' = NullNode
    /\ UNCHANGED <<nodes, links, hoveredNode, highlightedNodes, highlightedLinks>>
    /\ notified' = <<StoreState(nodes, links, selectedNode', hoveredNode,
                                highlightedNodes, highlightedLinks)>>
    /\ lastOp' = "handleBackgroundClick"
    /\ UNCHANGED <<tourVars, planVars, asyncVars, filterVars, hoverEvents>>

\* handleNodeHover(node): setHoveredNode(node), then a second set() of both
\* highlight sets; each set() notifies the subscribers.  (hoverEvents, the log
\* of the events issued, is written by the specification that issues them.)
handleNodeHoverVisible(node) ==
    /\ hoveredNode' = node
    /\ IF node # NullNode
       THEN /\ highlightedNodes' = GetNeighbors(visibleGraph.links, node.id).nodes
            /\ highlightedLinks' = GetNeighbors(visibleGraph.links, node.id).links
       ELSE /\ highlightedNodes' = {}
            /\ highlightedLinks' = {}
    /\ UNCHANGED <<nodes, links, selectedNode>>
    /\ notified' = <<StoreState(nodes, links, selectedNode, hoveredNode',
                                highlightedNodes, highlightedLinks),
                     StoreState(nodes, links, selectedNode, hoveredNode',
                                highlightedNodes', highlightedLinks')>>
    /\ lastOp' = "handleNodeHover"
    /\ UNCHANGED <<tourVars, planVars, asyncVars, filterVars>>

handleNodeHoverAccumulate(node) ==
    /\ hoveredNode' = node
    /\ IF node # NullNode
       THEN /\ highlightedNodes' = highlightedNodes \cup GetNeighbors(links, node.id).nodes
            /\ highlightedLinks' = highlightedLinks \cup GetNeighbors(links, node.id).links
       ELSE /\ highlightedNodes' = {}
            /\ highlightedLinks' = {}
    /\ UNCHANGED <<nodes, links, selectedNode>>
    /\ notified' = <<StoreState(nodes, links, selectedNode, hoveredNode',
                                highlightedNodes, highlightedLinks),
                     StoreState(nodes, links, selectedNode, hoveredNode',
                                highlightedNodes', highlightedLinks')>>
    /\ lastOp' = "handleNodeHover"
    /\ UNCHANGED <<tourVars, planVars, asyncVars, filterVars>>

handleNodeHoverStale(node) ==
    /\ hoveredNode' = node
    /\ IF node # NullNode
       THEN /\ highlightedNodes' = GetNeighbors(links, node.id).nodes
            /\ highlightedLinks' = GetNeighbors(links, node.id).links
       ELSE /\ highlightedNodes' = highlightedNodes
            /\ highlightedLinks' = highlightedLinks
    /\ UNCHANGED <<nodes, links, selectedNode>>
    /\ notified' = <<StoreState(nodes, links, selectedNode, hoveredNode',
                                highlightedNodes, highlightedLinks),
                     StoreState(nodes, links, selectedNode, hoveredNode',
                                highlightedNodes', highlightedLinks')>>
    /\ lastOp' = "handleNodeHover"
    /\ UNCHANGED <<tourVars, planVars, asyncVars, filterVars>>

handleNodeHover(node) ==
    /\ hoveredNode' = node
    /\ IF node # NullNode
       THEN /\ highlightedNodes' = GetNeighbors(links, node.id).nodes
            /\ highlightedLinks' = GetNeighbors(links, node.id).links
       ELSE /\ highlightedNodes' = {}
            /\ highlightedLinks' = {}
    /\ UNCHANGED <<nodes, links, selectedNode>>
    /\ notified' = <<StoreState(nodes, links, selectedNode, hoveredNode',
                                highlightedNodes, highlightedLinks),
                     StoreState(nodes, links, selectedNode, hoveredNode',
                                highlightedNodes', highlightedLinks')>>
    /\ lastOp' = "handleNodeHover"
    /\ UNCHANGED <<tourVars, planVars, asyncVars, filterVars>>

----------------------------------------------------------------------------
(* Graph3D: the guided tour (overview animation) *)

\* Math.min(15, nodes.length): the planning loop's iteration cap
TourStops == 15

\* const nodeTypes = ['person', 'event', 'location']
nodeTypes == <<"person", "event", "location">>

\* Math.floor(Math.random() * n), for each value of Math.random()
RandomIndices(n) == {(k * n) \div RandomSteps : k \in 0..(RandomSteps - 1)}

\* the nodes the planning loop may pick at one iteration
availableNodesAnyVisited(ns, visited, typeIndex) ==
    LET ok(n) == n.type = nodeTypes[typeIndex + 1]
    IN  SelectSeq(ns, ok)

availableNodesAnyType(ns, visited, typeIndex) ==
    LET ok(n) == n.id \notin visited
    IN  SelectSeq(ns, ok)

availableNodes(ns, visited, typeIndex) ==
    LET ok(n) == n.type = nodeTypes[typeIndex + 1] /\ n.id \notin visited
    IN  SelectSeq(ns, ok)

\* the for-loop of createSmoothPath from iteration i on: every path it can return
RECURSIVE SmoothPathsFrom(_, _, _, _, _)
SmoothPathsFrom(ns, path, visited, i, typeIndex) ==
    IF i >= Min(TourStops, Len(ns))
    THEN {path}
    ELSE LET avail == availableNodes(ns, visited, typeIndex)
             nextType == (typeIndex + 1) % Len(nodeTypes)
         IN  IF Len(avail) > 0
             THEN UNION {SmoothPathsFrom(ns, Append(path, avail[k + 1]),
                                         visited \cup {avail[k + 1].id}, i + 1, nextType) :
                         k \in RandomIndices(Len(avail))}
             ELSE SmoothPathsFrom(ns, path, visited, i + 1, nextType)

\* createSmoothPath(nodes): every path it can return (ns is not empty)
createSmoothPath(ns) ==
    UNION {SmoothPathsFrom(ns, <<ns[k + 1]>>, {ns[k + 1].id}, 0, 0) :
           k \in RandomIndices(Len(ns))}

\* React commits a render: startOverviewAnimation is rebuilt over the current
\* isOverviewActive and graphData.nodes, and the effect registers it as listener
Render ==
    /\ listener # [active |-> isOverviewActive, nodes |-> nodes]
    /\ listener' = [active |-> isOverviewActive, nodes |-> nodes]
    /\ lastOp' = "Render"
    /\ UNCHANGED <<storeVars, notified, graphRef, isOverviewActive, tours, planVars, asyncVars,
                   filterVars, hoverEvents>>

\* a 'startOverview' event reaches the registered listener: startOverviewAnimation()
startOverviewAnimation ==
    /\ graphRef
    /\ Len(listener.nodes) > 0
    /\ ~listener.active
    /\ Len(tours) < MaxTours
    /\ isOverviewActive' = TRUE
    /\ \E path \in createSmoothPath(listener.nodes) :
          tours' = Append(tours, [path |-> path, currentIndex |-> 0])
    /\ lastOp' = "startOverviewAnimation"
    /\ UNCHANGED <<storeVars, notified, graphRef, listener, planVars, asyncVars,
                   filterVars, hoverEvents>>

\* the timer of loop t fires: animateToNextNode()
animateToNextNode(t) ==
    LET path == tours[t].path
        currentIndex == tours[t].currentIndex
    IN  /\ lastOp' = "animateToNextNode"
        /\ UNCHANGED <<nodes, links, hoveredNode, highlightedNodes, highlightedLinks,
                       graphRef, listener, planVars, asyncVars, filterVars,
                       hoverEvents>>
        /\ IF currentIndex >= Len(path)
           THEN \* animation complete
                /\ isOverviewActive' = FALSE
                /\ tours' = RemoveAt(tours, t)
                /\ UNCHANGED <<selectedNode, notified>>
           ELSE IF graphRef
           THEN \* move the camera, select the stop, schedule the next timer
                /\ selectedNode' = path[currentIndex + 1]
                /\ notified' = <<StoreState(nodes, links, selectedNode', hoveredNode,
                                            highlightedNodes, highlightedLinks)>>
                /\ tours' = [tours EXCEPT ![t].currentIndex = currentIndex + 1]
                /\ UNCHANGED isOverviewActive
           ELSE \* no renderer handle: nothing is done and no timer is scheduled
                /\ tours' = RemoveAt(tours, t)
                /\ UNCHANGED <<selectedNode, notified, isOverviewActive>>

\* a WebGL/THREE error event: renderError is set, the fallback view replaces
\* ForceGraph3D and graphRef.current is cleared
RendererLost ==
    /\ graphRef
    /\ graphRef' = FALSE
    /\ lastOp' = "RendererLost"
    /\ UNCHANGED <<storeVars, notified, isOverviewActive, listener, tours, planVars, asyncVars,
                   filterVars, hoverEvents>>

----------------------------------------------------------------------------
(* page: the initial load *)

\* loadGraphData() up to its await: setLoading(true), the request is sent
loadGraphData_start ==
    /\ loadPc.at = "idle"
    /\ isLoading' = TRUE
    /\ loadPc' = [at |-> "fetching", response |-> NoResponse]
    /\ lastOp' = "loadGraphData_start"
    /\ UNCHANGED <<storeVars, notified, tourVars, planVars, filterVars, hoverEvents,
                   callVars, syncInFlight, error, journal>>

\* loadGraphData() from its await on: getGraph() has resolved to data;
\* setGraphData(data), then setLoading(false) in the finally block
loadGraphData_resume(response) ==
    /\ loadPc.at = "fetching"
    /\ LET data == getGraph(response)
       IN  /\ nodes' = data.nodes
           /\ links' = data.links
           /\ syncToAPI(data)
    /\ UNCHANGED <<selectedNode, hoveredNode, highlightedNodes, highlightedLinks>>
    /\ notified' = <<StoreState(nodes', links', selectedNode, hoveredNode,
                                highlightedNodes, highlightedLinks)>>
    /\ isLoading' = FALSE
    /\ loadPc' = [at |-> "done", response |-> response]
    /\ lastOp' = "loadGraphData"
    /\ UNCHANGED <<tourVars, planVars, filterVars, hoverEvents, callVars, error, journal>>

----------------------------------------------------------------------------
(* page: journal ingestion *)

\* what POST /api/journal brings back: an analysis with the names it extracted,
\* a body without an analysis, or a failure
Analysis(people, places, events) ==
    [kind |-> "analysis", people |-> people, places |-> places, events |-> events]
NoAnalysis == [kind |-> "noAnalysis", people |-> <<>>, places |-> <<>>, events |-> <<>>]
JournalFailure == [kind |-> "failed", people |-> <<>>, places |-> <<>>, events |-> <<>>]

\* ids are `${prefix}_${Date.now()}_${random}`: here the prefix and the name
journalEntryId == "journal_1"
entityNode(prefix, type, name) == Node(prefix \o "_" \o name, type)

\* entitiesToAdd.slice(1): the people, places and events as nodes
entityNodes(result) ==
    [i \in 1..Len(result.people) |-> entityNode("person", "person", result.people[i])]
        \o [i \in 1..Len(result.places) |-> entityNode("place", "location", result.places[i])]
        \o [i \in 1..Len(result.events) |-> entityNode("event", "event", result.events[i])]

\* the pairs (i, j), i < j, in the order of the nested loops
RECURSIVE pairsFrom(_, _, _)
pairsFrom(es, i, j) ==
    IF i > Len(es) THEN <<>>
    ELSE IF j > Len(es) THEN pairsFrom(es, i + 1, i + 2)
    ELSE <<Link(es[i].id, es[j].id)>> \o pairsFrom(es, i, j + 1)

\* newLinks: the journal entry to every entity, then the entities pairwise
newLinks(es) ==
    [i \in 1..Len(es) |-> Link(journalEntryId, es[i].id)]
        \o (IF Len(es) > 1 THEN pairsFrom(es, 1, 2) ELSE <<>>)

\* handleJournalSubmit() up to its await: the request is sent; the handler
\* keeps the graphData of the render it was created in
handleJournalSubmit_start ==
    /\ ~journal.active
    /\ journal' = [active |-> TRUE, nodes |-> nodes, links |-> links]
    /\ lastOp' = "handleJournalSubmit_start"
    /\ UNCHANGED <<storeVars, notified, tourVars, planVars, filterVars, hoverEvents,
                   callVars, syncInFlight, isLoading, error, loadPc>>

\* handleJournalSubmit() from its await on: with an analysis,
\* setGraphData({nodes: [...currentNodes, ...entitiesToAdd],
\*               links: [...currentLinks, ...newLinks]});
\* on a failure, setError(message)
handleJournalSubmit_resume(result) ==
    /\ journal.active
    /\ journal' = NoJournal
    /\ lastOp' = "handleJournalSubmit"
    /\ IF result.kind = "analysis"
       THEN /\ nodes' = journal.nodes \o <<Node(journalEntryId, "journal")>>
                           \o entityNodes(result)
            /\ links' = journal.links \o newLinks(entityNodes(result))
            /\ syncToAPI([nodes |-> nodes', links |-> links'])
            /\ notified' = <<StoreState(nodes', links', selectedNode, hoveredNode,
                                        highlightedNodes, highlightedLinks)>>
            /\ UNCHANGED error
       ELSE /\ UNCHANGED <<nodes, links, notified, syncInFlight>>
            /\ error' = IF result.kind = "failed"
                        THEN "Failed to process journal entry" ELSE error
    /\ UNCHANGED <<selectedNode, hoveredNode, highlightedNodes, highlightedLinks,
                   tourVars, planVars, filterVars, hoverEvents, callVars,
                   isLoading, loadPc>>

----------------------------------------------------------------------------
(* Initial state: the store as created, the component mounted *)

\* create<GraphState>(): the store's initial fields
StoreInit ==
    /\ nodes = <<>>
    /\ links = <<>>
    /\ selectedNode = NullNode
    /\ hoveredNode = NullNode
    /\ highlightedNodes = {}
    /\ highlightedLinks = {}
    /\ filterByType = NullType
    /\ searchQuery = <<>>
    /\ notified = <<>>
    /\ isLoading = FALSE
    /\ error = NullError
    /\ lastOp = "create"
    /\ hoverEvents = <<>>

\* Graph3D after its first render: renderer mounted, no tour, listener registered
ComponentInit ==
    /\ graphRef = TRUE
    /\ isOverviewActive = FALSE
    /\ listener = [active |-> FALSE, nodes |-> <<>>]
    /\ tours = <<>>

\* the page mounted, nothing requested yet
PageInit ==
    /\ loadPc = [at |-> "idle", response |-> NoResponse]
    /\ journal = NoJournal
    /\ syncInFlight = FALSE
    /\ calls = <<>>
    /\ focusInput = Origin
    /\ focusOutput = NoCamera

Init ==
    /\ StoreInit
    /\ ComponentInit
    /\ PageInit
    /\ planInput = <<>>
    /\ planOutput = <<>>

\* The store and the pointer handlers that write to it
Next ==
    \/ \E data \in Snapshots : setGraphData(data)
    \/ \E node \in NodeInputs : addNode(node)
    \/ \E id \in NodeIds : removeNode(id)
    \/ \E id \in UpdateIds, u \in UpdateInputs : updateNode(id, u)
    \/ \E link \in LinkInputs : addLink(link)
    \/ \E s \in NodeIds, t \in NodeIds : removeLink(s, t)
    \/ clearGraph
    \/ \E node \in Range(nodes) : handleNodeClick(node)
    \/ handleBackgroundClick
    \/ \E node \in Range(nodes) \cup {NullNode} :
          handleNodeHover(node) /\ UNCHANGED hoverEvents

Spec == Init /\ [][Next]_vars

----------------------------------------------------------------------------
(* The guided tour, with the store operations that can change the graph
   while a tour runs *)

\* snapshots loaded before or during a tour
TourSnapshots == {ScenarioGraph, SingleGraph}

\* nodes removed before or during a tour
TourRemoveIds == {"b"}

TourNext ==
    \/ \E data \in TourSnapshots : setGraphData(data)
    \/ \E id \in TourRemoveIds : removeNode(id)
    \/ clearGraph
    \/ Render
    \/ startOverviewAnimation
    \/ \E t \in 1..Len(tours) : animateToNextNode(t)
    \/ RendererLost

TourSpec == Init /\ [][TourNext]_vars

\* timers that are scheduled do fire
FairTourSpec == TourSpec /\ WF_vars(\E t \in 1..Len(tours) : animateToNextNode(t))

----------------------------------------------------------------------------
(* The view state: filter, search, selection, hover and highlight setters over
   loaded snapshots.  Pointer events come from the nodes that are rendered. *)

\* snapshots loaded while the view state changes
ViewSnapshots == {ScenarioGraph, DanglingGraph, ChainGraph}

\* types handed to setFilterByType (the buttons All, People, Events)
FilterInputs == {NullType, "person", "event"}

\* texts typed into the search box
QuerySarah  == <<"s", "a", "r", "a", "h">>
QuerySarahh == <<"S", "a", "r", "a", "h", "h">>
QueryH      == <<"h">>
QueryInputs == {<<>>, QuerySarah, QuerySarahh, QueryH}

\* id lists handed to setHighlightedNodes and setHighlightedLinks
HighlightNodeInputs == {<<>>, <<"a">>}
HighlightLinkInputs == {<<>>, <<"a-b">>}

ViewNext ==
    \/ \E data \in ViewSnapshots : setGraphData(data)
    \/ clearGraph
    \/ \E type \in FilterInputs : setFilterByType(type)
    \/ \E query \in QueryInputs : setSearchQuery(query)
    \/ \E ids \in HighlightNodeInputs : setHighlightedNodes(ids)
    \/ \E ids \in HighlightLinkInputs : setHighlightedLinks(ids)
    \/ \E node \in Range(visibleGraph.nodes) : handleNodeClick(node)
    \/ \E node \in Range(visibleGraph.nodes) \cup {NullNode} :
          handleNodeHover(node) /\ UNCHANGED hoverEvents

ViewSpec == Init /\ [][ViewNext]_vars

----------------------------------------------------------------------------
(* Hover events issued in order over a loaded snapshot *)

MaxHoverEvents == 3     \* hover events issued in one run

\* snapshots loaded before the pointer moves
HoverSnapshots == {ScenarioGraph, DanglingGraph, ChainGraph, HyphenGraph}

HoverNext ==
    \/ \E data \in HoverSnapshots :
          hoverEvents = <<>> /\ setGraphData(data)
    \/ \E node \in Range(nodes) \cup {NullNode} :
          /\ Len(hoverEvents) < MaxHoverEvents
          /\ handleNodeHover(node)
          /\ hoverEvents' = Append(hoverEvents, node.id)

HoverSpec == Init /\ [][HoverNext]_vars

----------------------------------------------------------------------------
(* createSmoothPath as a pure function of the node list *)

MaxPlanNodes == 3   \* longest node list drawn from PlanNodePool

\* node objects the planner's small inputs are built from: all three rotation
\* types, a type outside the rotation, and two objects that share an id
PlanNodePool == {NodeA, NodeB, NodeC, Node("a", "event"), Node("d", "person"),
                 Node("j", "journal")}

PlanInputs == UNION {[1..n -> PlanNodePool] : n \in 1..MaxPlanNodes}

\* TourStops + 1 nodes with distinct ids, the rotation types in turn
LargeGraphNodes ==
    [i \in 1..(TourStops + 1) |-> Node("n" \o ToString(i), nodeTypes[((i - 1) % 3) + 1])]

\* const path = createSmoothPath(nodes)
callCreateSmoothPath ==
    /\ planOutput = <<>>
    /\ \E path \in createSmoothPath(planInput) : planOutput' = path
    /\ lastOp' = "createSmoothPath"
    /\ UNCHANGED <<storeVars, notified, tourVars, planInput, filterVars, hoverEvents,
                   asyncVars>>

PlanInit ==
    /\ StoreInit
    /\ ComponentInit
    /\ PageInit
    /\ planInput \in PlanInputs
    /\ planOutput = <<>>

PlanNext == callCreateSmoothPath

PlanSpec == PlanInit /\ [][PlanNext]_vars

LargePlanInit ==
    /\ StoreInit
    /\ ComponentInit
    /\ PageInit
    /\ planInput = LargeGraphNodes
    /\ planOutput = <<>>

LargePlanSpec == LargePlanInit /\ [][PlanNext]_vars

----------------------------------------------------------------------------
(* The guided tour over graphs that hold exactly one node *)

\* one-node snapshots: each rotation type and a type outside the rotation
SingleNodeGraphs ==
    {[nodes |-> <<n>>, links |-> <<>>] : n \in {NodeA, NodeB, NodeC, Node("j", "journal")}}

SingleTourNext ==
    \/ \E data \in SingleNodeGraphs : setGraphData(data)
    \/ Render
    \/ startOverviewAnimation
    \/ \E t \in 1..Len(tours) : animateToNextNode(t)
    \/ RendererLost

SingleTourSpec == Init /\ [][SingleTourNext]_vars

----------------------------------------------------------------------------
(* The backend client's mutation calls, under every outcome of the backend *)

MaxCalls == 2   \* calls made in one run

\* node ids handed to the client: demo ids and ids the demo data does not hold
ApiNodeIds == {"a", "b", "z"}
ApiNodes == {Node("new", "person"), Node("tmp", "event")}
ApiLinks == {Link("a", "b"), Link("a", "z")}

\* the call returns or throws; the log records which
callGraphApi(call) ==
    /\ Len(calls) < MaxCalls
    /\ calls' = Append(calls, call)
    /\ lastOp' = call.op
    /\ UNCHANGED <<storeVars, notified, tourVars, planVars, filterVars, hoverEvents,
                   pageVars, syncInFlight, focusInput, focusOutput>>

ApiNext ==
    \/ \E node \in ApiNodes, backend \in BackendOutcomes, now \in Clock :
          callGraphApi(graphApi_createNode(node, backend, now))
    \/ \E id \in ApiNodeIds, u \in UpdateInputs, backend \in BackendOutcomes :
          callGraphApi(graphApi_updateNode(id, u, backend))
    \/ \E id \in ApiNodeIds, backend \in BackendOutcomes :
          callGraphApi(graphApi_deleteNode(id, backend))
    \/ \E link \in ApiLinks, backend \in BackendOutcomes :
          callGraphApi(graphApi_createLink(link, backend))
    \/ \E link \in ApiLinks, backend \in BackendOutcomes :
          callGraphApi(graphApi_deleteLink(link.source, link.target, backend))

ApiSpec == Init /\ [][ApiNext]_vars

----------------------------------------------------------------------------
(* The initial load under every outcome of the graph data provider, followed
   by the user's first interactions *)

EntityX == Entity("x", "Person")
EntityY == Entity("y", "Location")
EntityW == Entity("w", "Date")

\* result arrays the provider answers with; the undirected MATCH returns a
\* relationship once from each end
ProviderResults ==
    {<<>>,
     <<Record(EntityX, FALSE, NoEntity)>>,
     <<Record(EntityX, TRUE, EntityY), Record(EntityY, TRUE, EntityX)>>,
     <<Record(EntityX, TRUE, EntityY), Record(EntityW, FALSE, NoEntity)>>}

Responses ==
    {Response("results", results) : results \in ProviderResults}
        \cup {Response("noResults", <<>>), Response("notArray", <<>>),
              Response("networkError", <<>>)}

LoadNext ==
    \/ loadGraphData_start
    \/ \E response \in Responses : loadGraphData_resume(response)
    \/ \E type \in FilterInputs : loadPc.at = "done" /\ setFilterByType(type)
    \/ \E node \in Range(nodes) : loadPc.at = "done" /\ handleNodeClick(node)
    \/ \E node \in Range(nodes) \cup {NullNode} :
          loadPc.at = "done" /\ handleNodeHover(node) /\ UNCHANGED hoverEvents

LoadSpec == Init /\ [][LoadNext]_vars

----------------------------------------------------------------------------
(* Snapshots set while their persistence syncs settle, in any order *)

SyncNext ==
    \/ \E data \in Snapshots : setGraphData(data)
    \/ \E outcome \in SyncOutcomes : syncToAPI_settle(outcome)
    \/ clearGraph
    \/ \E node \in Range(nodes) : handleNodeClick(node)
    \/ \E node \in Range(nodes) \cup {NullNode} :
          handleNodeHover(node) /\ UNCHANGED hoverEvents

SyncSpec == Init /\ [][SyncNext]_vars

----------------------------------------------------------------------------
(* Journal ingestion while the store is written by others *)

JournalResults ==
    {Analysis(<<>>, <<>>, <<>>), Analysis(<<"Sam">>, <<>>, <<>>),
     Analysis(<<"Sam">>, <<"Rome">>, <<"Gala">>), NoAnalysis, JournalFailure}

\* a snapshot that arrives while the analysis is awaited (the initial load);
\* one entry is submitted per graph, its id being fresh
JournalSnapshots == {ScenarioGraph, SingleGraph}

JournalNext ==
    \/ \E data \in JournalSnapshots : setGraphData(data)
    \/ \E node \in NodeInputs : addNode(node)
    \/ journalEntryId \notin Ids(nodes) /\ handleJournalSubmit_start
    \/ \E result \in JournalResults : handleJournalSubmit_resume(result)

JournalSpec == Init /\ [][JournalNext]_vars

----------------------------------------------------------------------------
(* The camera target as a pure function of the node position *)

MaxCoord == 4   \* node coordinates range over -MaxCoord..MaxCoord

\* positions at a whole-number distance from the origin, the origin included
\* (a node the layout engine has not placed yet has no coordinates: x || 0)
Positions ==
    {p \in [x : -MaxCoord..MaxCoord, y : -MaxCoord..MaxCoord, z : -MaxCoord..MaxCoord] :
        \E r \in 0..(2 * MaxCoord) : r * r = NormSquared(p)}

\* handleNodeClick's camera move on a node at focusInput
focusOnClick ==
    /\ focusOutput' = clickCameraPosition(focusInput)
    /\ lastOp' = "focusOnClick"
    /\ UNCHANGED <<storeVars, notified, tourVars, planVars, filterVars, hoverEvents,
                   pageVars, syncInFlight, calls, focusInput>>

\* animateToNextNode's camera move on a stop at focusInput
focusOnTourStop ==
    /\ \E kd \in 0..(RandomSteps - 1), kx \in 0..(RandomSteps - 1),
          ky \in 0..(RandomSteps - 1), kz \in 0..(RandomSteps - 1) :
          focusOutput' = tourCameraPosition(focusInput, kd, kx, ky, kz)
    /\ lastOp' = "focusOnTourStop"
    /\ UNCHANGED <<storeVars, notified, tourVars, planVars, filterVars, hoverEvents,
                   pageVars, syncInFlight, calls, focusInput>>

FocusInit ==
    /\ StoreInit
    /\ ComponentInit
    /\ loadPc = [at |-> "idle", response |-> NoResponse]
    /\ journal = NoJournal
    /\ syncInFlight = FALSE
    /\ calls = <<>>
    /\ focusInput \in Positions
    /\ focusOutput = NoCamera
    /\ planInput = <<>>
    /\ planOutput = <<>>

FocusNext == focusOnClick \/ focusOnTourStop

FocusSpec == FocusInit /\ [][FocusNext]_vars

----------------------------------------------------------------------------
(* Properties *)

CountNodesNot(ns, id) == Cardinality({i \in 1..Len(ns) : ns[i].id # id})

CountLinksNot(ls, id) ==
    Cardinality({i \in 1..Len(ls) : ls[i].source # id /\ ls[i].target # id})

\* C1: after removeNode(id) the store holds no node with that id and no link
\* whose source or target is id; every other node and link is kept.
C1_RemoveNodeIntegrity ==
    [][\A id \in NodeIds :
          removeNode(id) =>
             /\ id \notin Ids(nodes')
             /\ \A i \in 1..Len(links') : links'[i].source # id /\ links'[i].target # id
             /\ Range(nodes') = {n \in Range(nodes) : n.id # id}
             /\ Len(nodes') = CountNodesNot(nodes, id)
             /\ Range(links') = {l \in Range(links) : l.source # id /\ l.target # id}
             /\ Len(links') = CountLinksNot(links, id)]_vars

\* C1 witness: removeNode has just run and left the scenario's result,
\* nodes {B, C} and no links, behind.
C1_Witness ==
    /\ lastOp = "removeNode"
    /\ nodes = <<NodeB, NodeC>>
    /\ links = <<>>

\* C2: in every reachable store state every link's source and target are ids
\* of nodes of the same graph (a link with a missing endpoint never becomes
\* observable).
C2_LinksReferenceNodes ==
    \A i \in 1..Len(links) : links[i].source \in Ids(nodes) /\ links[i].target \in Ids(nodes)

\* C3: removeLink(s, t) leaves no link between s and t in the store, whichever
\* of the two is the stored link's source.
C3_RemoveLinkEitherOrientation ==
    [][\A s \in NodeIds, t \in NodeIds :
          removeLink(s, t) =>
             \A i \in 1..Len(links') :
                /\ ~(links'[i].source = s /\ links'[i].target = t)
                /\ ~(links'[i].source = t /\ links'[i].target = s)]_vars

\* C4: after setGraphData the transient view state is empty: no selected
\* node, no hovered node, empty highlight sets.
C4_SetGraphDataResetsView ==
    lastOp = "setGraphData" =>
        /\ selectedNode = NullNode
        /\ hoveredNode = NullNode
        /\ highlightedNodes = {}
        /\ highlightedLinks = {}

\* C5: a tour trigger while a tour runs is a no-op: at most one planned path
\* with its stepping loop is in flight at any time.
C5_AtMostOneTour == Len(tours) <= 1

\* C6: the planned path has at most 15 stops, the first stop included.
C6_PathAtMostFifteen == Len(planOutput) <= 15

\* C7: the planned path contains no node id twice, for every input list and
\* every outcome of the random choices.
C7_PathHasNoDuplicateIds ==
    \A i \in 1..Len(planOutput), j \in 1..Len(planOutput) :
        i # j => planOutput[i].id # planOutput[j].id

\* C7 witness: a path of several stops planned over a list in which two node
\* objects share an id.
C7_Witness ==
    /\ Len(planOutput) >= 2
    /\ \E i \in 1..Len(planInput), j \in 1..Len(planInput) :
          i # j /\ planInput[i].id = planInput[j].id

\* C8: every started tour eventually returns to Idle: whenever the running
\* flag is set it is later cleared (timers fire fairly).
C8_TourReturnsToIdle == isOverviewActive ~> ~isOverviewActive

\* C9: when the tour reaches a stop whose node is no longer in the store, it
\* does not select that node: every node a tour step selects is in the store.
C9_RemovedStopSkipped ==
    [][\A t \in 1..Len(tours) :
          (/\ tours[t].currentIndex < Len(tours[t].path)
           /\ graphRef
           /\ animateToNextNode(t))
          => selectedNode'.id \in Ids(nodes')]_vars

\* hover state of one store snapshot: no hovered node means empty highlight
\* sets, a hovered node N means the sets of getNeighbors(N)
HoverConsistent(st) ==
    IF st.hoveredNode = NullNode
    THEN st.highlightedNodes = {} /\ st.highlightedLinks = {}
    ELSE /\ st.highlightedNodes = GetNeighbors(st.links, st.hoveredNode.id).nodes
         /\ st.highlightedLinks = GetNeighbors(st.links, st.hoveredNode.id).links

\* C10: at every state-change notification a subscriber sees consistent hover
\* state: the highlight sets belong to the hovered node of the same snapshot.
C10_NotificationsHoverConsistent ==
    \A i \in 1..Len(notified) : HoverConsistent(notified[i])

----------------------------------------------------------------------------
(* The visible graph, hover highlights and view state *)

\* the graph the store holds
storeGraph == [nodes |-> nodes, links |-> links]

\* C11: the links of the visible graph are exactly the store links whose two
\* endpoints are both visible nodes, also with "show all" and an empty query.
C11_VisibleLinksInduced ==
    visibleGraph.links =
        SelectSeq(links, LAMBDA l : /\ l.source \in Ids(visibleGraph.nodes)
                                    /\ l.target \in Ids(visibleGraph.nodes))

\* two characters that are the same letter, case aside
SameLetter(x, y) ==
    \/ x = y
    \/ \E k \in 1..Len(UpperCaseLetters) :
          {x, y} = {UpperCaseLetters[k], LowerCaseLetters[k]}

\* query occurs in name at some offset, case aside
MatchesIgnoringCase(name, query) ==
    \E off \in 0..(Len(name) - Len(query)) :
        \A k \in 1..Len(query) : SameLetter(name[off + k], query[k])

\* the node passes the active type filter and the active search query
Passes(n) ==
    /\ filterByType = NullType \/ n.type = filterByType
    /\ searchQuery = <<>> \/ MatchesIgnoringCase(n.name, searchQuery)

\* C12: the visible nodes are exactly the store nodes that pass the type filter
\* and whose name contains the query as a case-insensitive substring; "sarah"
\* keeps "Sarah Chen" and "Sarahh" drops it.
C12_VisibleNodesMatch ==
    /\ visibleGraph.nodes = SelectSeq(nodes, Passes)
    /\ (searchQuery = QuerySarah /\ NodeA \in Range(nodes)
           /\ filterByType \in {NullType, NodeA.type})
          => NodeA \in Range(visibleGraph.nodes)
    /\ searchQuery = QuerySarahh => NodeA \notin Range(visibleGraph.nodes)

C12_Witness ==
    /\ searchQuery = QuerySarah
    /\ NodeA \in Range(visibleGraph.nodes)
    /\ Len(visibleGraph.nodes) < Len(nodes)

\* C13: filtering by type and then by query gives the same nodes and links as
\* filtering by query and then by type.
C13_FilterStagesCommute ==
    \A type \in FilterInputs, query \in QueryInputs :
        searchFilter(typeFilter(storeGraph, type), query)
            = typeFilter(searchFilter(storeGraph, query), type)

C13_Witness ==
    /\ filterByType = "person"
    /\ searchQuery = QueryH
    /\ searchFilter(storeGraph, searchQuery).links # <<>>
    /\ visibleGraph.nodes # <<>>
    /\ visibleGraph.links = <<>>

\* C14: getNeighbors is symmetric: B is among A's neighbours exactly when A is
\* among B's, and the link joining them has the same id from both sides.
C14_NeighborsSymmetric ==
    LET neighbors == [x \in NodeIds |-> GetNeighbors(links, x)]
    IN  \A x \in NodeIds, y \in NodeIds :
            /\ y \in neighbors[x].nodes <=> x \in neighbors[y].nodes
            /\ \A i \in 1..Len(links) :
                  {links[i].source, links[i].target} = {x, y}
                     => /\ LinkId(links[i].source, links[i].target) \in neighbors[x].links
                        /\ LinkId(links[i].source, links[i].target) \in neighbors[y].links

C14_Witness ==
    /\ lastOp = "handleNodeHover"
    /\ hoveredNode = NodeB
    /\ Link("a", "b") \in Range(links)
    /\ "a" \in highlightedNodes
    /\ "a-b" \in highlightedLinks

\* ids of the store links that touch the node
IncidentLinkIds(id) ==
    {LinkId(l.source, l.target) :
        l \in {m \in Range(links) : m.source = id \/ m.target = id}}

\* ids at the other end of the store links that touch the node
NeighborIds(id) ==
    {l.target : l \in {m \in Range(links) : m.source = id}}
        \cup {l.source : l \in {m \in Range(links) : m.target = id}}

\* C15: after a hover-enter on N the highlighted links are exactly the ids of
\* the links incident to N in the unfiltered store graph, and the highlighted
\* nodes hold every neighbour of N and nothing outside neighbours and N,
\* whatever the type filter and the search query are.
C15_HoverHighlightsStoreNeighbors ==
    (lastOp = "handleNodeHover" /\ hoveredNode # NullNode)
       => /\ highlightedLinks = IncidentLinkIds(hoveredNode.id)
          /\ NeighborIds(hoveredNode.id) \subseteq highlightedNodes
          /\ highlightedNodes \subseteq NeighborIds(hoveredNode.id) \cup {hoveredNode.id}

C15_Witness ==
    /\ lastOp = "handleNodeHover"
    /\ hoveredNode = NodeA
    /\ filterByType = "person"
    /\ "b" \notin Ids(visibleGraph.nodes)
    /\ "b" \in highlightedNodes
    /\ highlightedLinks = {"a-b"}

\* the last hover event issued
LastHover == hoverEvents[Len(hoverEvents)]

\* C16: after hover-enter(A), hover-leave, hover-enter(B) the highlight sets
\* are those of a single hover-enter(B): nothing of A remains.
C16_HoverKeepsOnlyLast ==
    (hoverEvents # <<>> /\ LastHover # NullNode.id)
       => /\ hoveredNode.id = LastHover
          /\ highlightedNodes = GetNeighbors(links, LastHover).nodes
          /\ highlightedLinks = GetNeighbors(links, LastHover).links

C16_Witness ==
    /\ hoverEvents = <<"a", NullNode.id, "c">>
    /\ links = ChainGraph.links
    /\ highlightedNodes = {"b"}
    /\ highlightedLinks = {"b-c"}

\* C17: a hover-enter followed by a hover-leave leaves both highlight sets
\* empty and no node hovered.
C17_HoverLeaveClears ==
    (Len(hoverEvents) >= 2 /\ LastHover = NullNode.id
        /\ hoverEvents[Len(hoverEvents) - 1] # NullNode.id)
       => /\ highlightedNodes = {}
          /\ highlightedLinks = {}
          /\ hoveredNode = NullNode

C17_Witness ==
    /\ hoverEvents = <<"a", NullNode.id>>
    /\ notified[1].highlightedNodes # {}
    /\ notified[1].highlightedLinks # {}
    /\ highlightedNodes = {}
    /\ highlightedLinks = {}

\* C18: with some highlight set non-empty a node is fully opaque when its id is
\* highlighted and at low opacity otherwise; with both sets empty every node
\* is fully opaque.
C18_NodeOpacityRule ==
    \A n \in Range(visibleGraph.nodes) :
        nodeOpacity(highlightedNodes, n.id) =
            IF highlightedNodes # {} \/ highlightedLinks # {}
            THEN (IF n.id \in highlightedNodes THEN FullOpacity ELSE LowOpacity)
            ELSE FullOpacity

\* C19: setGraphData leaves the type filter and the search query as they were.
C19_SetGraphDataKeepsFilters ==
    [][\A data \in ViewSnapshots \cup Snapshots \cup TourSnapshots :
          setGraphData(data)
             => /\ filterByType' = filterByType
                /\ searchQuery' = searchQuery]_vars

C19_Witness ==
    /\ lastOp = "setGraphData"
    /\ filterByType = "person"
    /\ searchQuery = QuerySarah
    /\ nodes = ChainGraph.nodes

\* C20: clearGraph empties the graph and the selection and leaves the type
\* filter and the search query as they were.
C20_ClearGraphKeepsFilters ==
    [][clearGraph
          => /\ nodes' = <<>>
             /\ links' = <<>>
             /\ selectedNode' = NullNode
             /\ filterByType' = filterByType
             /\ searchQuery' = searchQuery]_vars

C20_Witness ==
    /\ lastOp = "clearGraph"
    /\ nodes = <<>>
    /\ links = <<>>
    /\ selectedNode = NullNode
    /\ filterByType = "event"
    /\ searchQuery = QueryH

----------------------------------------------------------------------------
(* Identifiers, camera focus, planning rotation, collaborators *)

\* C21: node identifiers are pairwise distinct within the graph snapshot after
\* any sequence of setGraphData, addNode, updateNode and removeNode.
C21_NodeIdsDistinct ==
    \A i \in 1..Len(nodes), j \in 1..Len(nodes) :
        i # j => nodes[i].id # nodes[j].id

\* the rotation type due at planning step i (i = 0, 1, 2, ...)
DueType(i) == nodeTypes[(i % 3) + 1]

\* the stops path[j..] are what planning steps i, i+1, ... append over ns:
\* a step appends one unvisited node of the due type when ns has one, and
\* nothing otherwise
RECURSIVE FollowsRotation(_, _, _, _)
FollowsRotation(ns, path, i, j) ==
    IF i >= Min(TourStops, Len(ns))
    THEN j = Len(path) + 1
    ELSE LET visited == {path[k].id : k \in 1..(j - 1)}
             due == {n \in Range(ns) : n.type = DueType(i) /\ n.id \notin visited}
         IN  IF due = {}
             THEN FollowsRotation(ns, path, i + 1, j)
             ELSE /\ j <= Len(path)
                  /\ path[j] \in due
                  /\ FollowsRotation(ns, path, i + 1, j + 1)

C29_LinkHighlightExact ==
    /\ hoveredNode # NullNode
          => \A l \in Range(links) :
                linkHighlighted(highlightedLinks, l)
                   => hoveredNode.id \in {l.source, l.target}
    /\ \A l1 \in Range(links), l2 \in Range(links) :
          <<l1.source, l1.target>> # <<l2.source, l2.target>>
             => LinkId(l1.source, l1.target) # LinkId(l2.source, l2.target)

\* C30: selectedNode and hoveredNode are each none or a node whose id is in
\* graphData.nodes, and highlightedNodes holds only ids of existing nodes;
\* removeNode and clearGraph leave no removed node selected, hovered or
\* highlighted.
C30_ViewRefersToExistingNodes ==
    /\ selectedNode = NullNode \/ selectedNode.id \in Ids(nodes)
    /\ hoveredNode = NullNode \/ hoveredNode.id \in Ids(nodes)
    /\ highlightedNodes \subseteq Ids(nodes)

\* every component of a camera position is a finite number
IsFinitePosition(c) == c.x.k = "num" /\ c.y.k = "num" /\ c.z.k = "num"

\* the rational q equals v * (1 + distance / d)
IsScaled(q, v, distance, d) == q.n * d = v * (d + distance) * q.d

\* C22: focus-on-click moves the camera to the node position scaled by
\* 1 + desiredDistance / d, and for a node at the origin (d = 0) the camera
\* target is still a well-defined position.
C22_FocusWellDefined ==
    focusOutput # NoCamera
       => /\ IsFinitePosition(focusOutput)
          /\ (lastOp = "focusOnClick" /\ focusInput # Origin)
                => /\ IsScaled(focusOutput.x, focusInput.x, ClickDistance, hypot(focusInput).n)
                   /\ IsScaled(focusOutput.y, focusInput.y, ClickDistance, hypot(focusInput).n)
                   /\ IsScaled(focusOutput.z, focusInput.z, ClickDistance, hypot(focusInput).n)

\* C23: on a graph with exactly one node, whatever its type, the planned path
\* has length exactly 1, the tour selects that node once, and the tour ends
\* in Idle: once no step of it is pending, the running flag is cleared.
C23_SingleNodeTour ==
    /\ \A t \in 1..Len(tours) :
          /\ Len(tours[t].path) = 1
          /\ tours[t].currentIndex <= 1
    /\ tours = <<>> => ~isOverviewActive

\* C25: every mutation call of the backend client (createNode, updateNode,
\* deleteNode, createLink, deleteLink) completes without raising when the
\* backend is unavailable, for every node id and link, ids outside the demo
\* data included.
C25_MutationCallsNeverRaise ==
    \A i \in 1..Len(calls) : calls[i].outcome # "raised"

\* names of the entities in a result array
ProvidedNames(results) ==
    ({results[i].n.name : i \in 1..Len(results)}
        \cup {results[i].m.name : i \in 1..Len(results)}) \ {NoEntity.name}

\* unordered endpoint pairs of the relationships in a result array
ProvidedPairs(results) ==
    {{results[i].n.name, results[i].m.name} :
        i \in {j \in 1..Len(results) : results[j].r}}

\* C26: for every outcome of the graph data provider (success, malformed
\* response, network failure) the initial load ends with isLoading = false, no
\* fatal error, and the store holding the provider's snapshot or the demo
\* snapshot.
C26_LoadEndsSettled ==
    loadPc.at = "done"
       => /\ ~isLoading
          /\ error = NullError
          /\ lastOp = "loadGraphData"
                => IF loadPc.response.kind = "results"
                   THEN /\ Ids(nodes) = ProvidedNames(loadPc.response.results)
                        /\ {{l.source, l.target} : l \in Range(links)}
                              = ProvidedPairs(loadPc.response.results)
                   ELSE storeGraph = DEMO_GRAPH_DATA

\* C27: setGraphData replaces the graph at once and its persistence sync is
\* fire-and-forget: when the sync settles, with success or with failure,
\* nothing is raised (no error is recorded) and the store is left as it was.
C27_SyncNeverAltersStore ==
    [][/\ \A data \in Snapshots :
             setGraphData(data)
                => /\ nodes' = data.nodes /\ links' = data.links
                   /\ error' = error
       /\ \A outcome \in SyncOutcomes :
             syncToAPI_settle(outcome)
                => /\ UNCHANGED storeVars
                   /\ error' = error /\ isLoading' = isLoading]_vars

C27_Witness ==
    /\ lastOp = "syncToAPI_warn"
    /\ ~syncInFlight
    /\ storeGraph = ScenarioGraph
    /\ selectedNode = NodeA
    /\ error = NullError

\* C28: a journal ingestion loses no concurrent change: every node and link
\* that is in the store when the analysis response arrives is still in the
\* store after the ingestion has applied its new nodes and links.
C28_IngestionKeepsConcurrentChanges ==
    [][\A result \in JournalResults :
          handleJournalSubmit_resume(result)
             => /\ Range(nodes) \subseteq Range(nodes')
                /\ Range(links) \subseteq Range(links')]_vars

====
